---- MODULE Spec2Model ----
(***************************************************************************)
(* Model of hydradx-adapters: the MultiCurrencyTrader weight trader        *)
(* (buy_weight / refund_weight / Drop) together with the collaborators the *)
(* test-suite plugs into it (MockOracle, MockConvert, IdentityFee and      *)
(* ConstantMultiplier, a revenue sink that records what it is handed).     *)
(*                                                                         *)
(* Integer widths are scaled down: Weight (u64) ranges over 0..U64Max and  *)
(* Balance (u128) over 0..U128Max; FixedU128 keeps its representation      *)
(* (an inner integer, value = inner / DIV) with a small DIV.               *)
(* Option<T> values are sets with at most one element.                     *)
(***************************************************************************)
EXTENDS Integers, Sequences, FiniteSets, TLC

\* ---------------------------------------------------------------- bounds
\* Largest Weight (u64::MAX, scaled).
U64Max == 3
\* Largest Balance (u128::MAX, scaled); also the largest FixedU128 inner value.
U128Max == 15
\* Number of buy_weight / refund_weight calls explored in one session.
MaxOps == 4
\* Number of calls explored in a session whose buys are offered every payment.
MaxBuyOps == 2
\* Calls of buy_weight / refund_weight in a session followed to its drop.
MaxScopedOps == 3
\* Number of ToFeeReceiver::take_revenue calls explored.
MaxSinkCalls == 2

\* ------------------------------------------------------- numeric helpers
Min(a, b) == IF a <= b THEN a ELSE b

\* Saturating::saturating_add on u64 (Weight).
saturating_add(a, b) == Min(a + b, U64Max)

\* An accrue that wraps around instead of saturating.
saturating_accrue_wraps(a, b) == (a + b) % (U128Max + 1)

\* Saturating::saturating_accrue on u128 (ledger amounts).
saturating_accrue(a, b) == Min(a + b, U128Max)

\* FixedU128::DIV (10^18 in sp_arithmetic), scaled: one fractional bit.
DIV == 2

\* FixedU128::one()
PriceOne == DIV
\* FixedU128::from_float(0.5)
PriceHalf == DIV \div 2
\* FixedU128::saturating_from_integer(n): n * DIV, saturating at the inner maximum.
saturating_from_integer(n) == IF n > U128Max \div DIV THEN U128Max ELSE n * DIV

\* A multiplication that saturates where it should report the overflow.
checked_mul_int_saturates(price, n) ==
    LET value == (price * n) \div DIV
    IN  IF value <= U128Max THEN {value} ELSE {U128Max}

\* FixedPointNumber::checked_mul_int: inner * n / DIV rounded toward zero,
\* None when the result does not fit the integer type.
checked_mul_int(price, n) ==
    LET value == (price * n) \div DIV
    IN  IF value <= U128Max THEN {value} ELSE {}

\* The narrowing converted_fee.try_into::<u128>() of buy_weight.
try_into_u128(n) == IF n <= U128Max THEN {n} ELSE {}

\* A multiplication that wraps around where it should saturate.
saturating_mul_int_wraps(price, n) == ((price * n) \div DIV) % (U128Max + 1)

\* FixedPointNumber::saturating_mul_int followed by saturated_into::<u128>().
saturating_mul_int(price, n) ==
    LET r == checked_mul_int(price, n)
    IN  IF r = {} THEN U128Max ELSE CHOOSE v \in r : TRUE

\* -------------------------------------------------- assets and locations
CORE_ASSET_ID == 0
TEST_ASSET_ID == 123
CHEAP_ASSET_ID == 420
OVERFLOW_ASSET_ID == 1000
\* The token of cannot_buy_with_unknown_token / cannot_buy_with_non_fungible.
UNKNOWN_ASSET_ID == 9876

KnownAssetIds == {CORE_ASSET_ID, TEST_ASSET_ID, CHEAP_ASSET_ID, OVERFLOW_ASSET_ID}

\* SCALE encoding of a u32: four little-endian bytes.
Encode(id) ==
    << id % 256, (id \div 256) % 256, (id \div 65536) % 256, (id \div 16777216) % 256 >>

\* AssetId::decode of a GeneralKey.
Decode(key) == key[1] + 256 * key[2] + 65536 * key[3] + 16777216 * key[4]

\* A MultiLocation { parents: 0, interior: X1(GeneralKey(key)) } is its key.
\* MockConvert: AssetId -> Option<MultiLocation>.
ConvertIdToLocation(id) == IF id \in KnownAssetIds THEN {Encode(id)} ELSE {}

\* MockConvert: MultiLocation -> Option<AssetId>.
ConvertLocationToId(location) ==
    IF Decode(location) \in KnownAssetIds THEN {Decode(location)} ELSE {}

\* xcm AssetId: Concrete(MultiLocation) or Abstract(bytes).
Concrete(location) == [kind |-> "Concrete", key |-> location]
Abstract(bytes) == [kind |-> "Abstract", key |-> bytes]

\* MultiAsset with Fungibility::Fungible(amount).
Fungible(id, amount) == [id |-> id, fun |-> "Fungible", amount |-> amount]

\* MockConvert: MultiAsset -> Option<AssetId>.
ConvertCurrency(asset) ==
    IF asset.id.kind = "Concrete" THEN ConvertLocationToId(asset.id.key) ELSE {}

\* Derived Ord of byte strings of equal length (lexicographic).
KeyLess(a, b) ==
    \E i \in 1..Len(a) : a[i] < b[i] /\ \A j \in 1..(i - 1) : a[j] = b[j]

\* Derived Ord of xcm AssetId: every Concrete sorts before every Abstract.
AssetIdLess(a, b) ==
    \/ a.kind = "Concrete" /\ b.kind = "Abstract"
    \/ a.kind = b.kind /\ KeyLess(a.key, b.key)

\* Ord of the ledger key (MultiLocation, Price).
LedgerKeyLess(a, b) ==
    \/ KeyLess(a[1], b[1])
    \/ a[1] = b[1] /\ a[2] < b[2]

\* MockOracle::price as a table; the oracle of a running chain may answer
\* differently later in the session (OracleUpdate).
MockOracle ==
    [currency \in KnownAssetIds |->
        IF currency = CORE_ASSET_ID THEN {PriceOne}
        ELSE IF currency = TEST_ASSET_ID THEN {PriceHalf}
        ELSE IF currency = CHEAP_ASSET_ID THEN {saturating_from_integer(4)}
        ELSE {saturating_from_integer(2147483647)}]

\* ------------------------------------------------ xcm_executor::Assets
\* Assets { fungible: BTreeMap<AssetId, u128>, non_fungible: BTreeSet<..> }.
Assets(fungible, non_fungible) == [fungible |-> fungible, non_fungible |-> non_fungible]

EmptyAssets == Assets(<<>>, {})

\* Assets::is_empty
is_empty(assets) == DOMAIN assets.fungible = {} /\ assets.non_fungible = {}

\* An iterator taken from its back: the fungible entry with the greatest id.
fungible_assets_iter_next_back(assets) ==
    LET ids == DOMAIN assets.fungible
    IN  IF ids = {} THEN {}
        ELSE LET last == CHOOSE a \in ids : \A b \in ids \ {a} : AssetIdLess(b, a)
             IN  {Fungible(last, assets.fungible[last])}

\* Assets::fungible_assets_iter().next(): the fungible entry with the least id.
fungible_assets_iter_next(assets) ==
    LET ids == DOMAIN assets.fungible
    IN  IF ids = {} THEN {}
        ELSE LET first == CHOOSE a \in ids : \A b \in ids \ {a} : AssetIdLess(a, b)
             IN  {Fungible(first, assets.fungible[first])}

\* A checked_sub that takes whatever the holding has when it has too little.
checked_sub_takes_all(assets, mask) ==
    IF mask.id \in DOMAIN assets.fungible
    THEN LET keep == IF assets.fungible[mask.id] <= mask.amount
                     THEN DOMAIN assets.fungible \ {mask.id}
                     ELSE DOMAIN assets.fungible
         IN  [ok |-> TRUE,
              assets |-> Assets([i \in keep |->
                                    IF i = mask.id THEN assets.fungible[i] - mask.amount
                                    ELSE assets.fungible[i]],
                                assets.non_fungible)]
    ELSE [ok |-> FALSE, assets |-> assets]

\* A checked_sub that keeps an entry of amount 0 in the holding.
checked_sub_keeps_zero(assets, mask) ==
    IF mask.id \in DOMAIN assets.fungible /\ assets.fungible[mask.id] >= mask.amount
    THEN [ok |-> TRUE,
          assets |-> Assets([i \in DOMAIN assets.fungible |->
                                IF i = mask.id THEN assets.fungible[i] - mask.amount
                                ELSE assets.fungible[i]],
                            assets.non_fungible)]
    ELSE [ok |-> FALSE, assets |-> assets]

\* Assets::checked_sub of a fungible MultiAsset: Ok(remainder) when the holding
\* has at least that amount of that id (an entry that reaches 0 is removed),
\* otherwise Err(self), the holding as it was.
checked_sub(assets, mask) ==
    IF mask.id \in DOMAIN assets.fungible /\ assets.fungible[mask.id] >= mask.amount
    THEN LET keep == IF assets.fungible[mask.id] = mask.amount
                     THEN DOMAIN assets.fungible \ {mask.id}
                     ELSE DOMAIN assets.fungible
         IN  [ok |-> TRUE,
              assets |-> Assets([i \in keep |->
                                    IF i = mask.id THEN assets.fungible[i] - mask.amount
                                    ELSE assets.fungible[i]],
                                assets.non_fungible)]
    ELSE [ok |-> FALSE, assets |-> assets]

\* ----------------------------------------------------------------- state
VARIABLES
    weight,         \* MultiCurrencyTrader.weight
    paid_assets,    \* MultiCurrencyTrader.paid_assets: (location, price) -> amount
    feeMultiplier,  \* the ConvertWeightToFee the trader is instantiated with
    prices,         \* what AcceptedCurrencyPrices::price answers now
    revenue,        \* the calls Revenue::take_revenue has received, in order
    dropped,        \* the trader has been dropped
    call,           \* the last call made on the trader, with its arguments (for a
                    \* buy, also the oracle's table at the time)
    ret,            \* what that call returned
    old,            \* weight and paid_assets as they were when that call started
    paid,           \* history: per location, amount deducted by successful buys
    buys,           \* history: per location, number of successful buys
    wbought,        \* history: per location, weight bought by successful buys
    refunded,       \* history: per location, amount returned by refunds
    refunds,        \* history: number of refund_weight calls
    prevRefund,     \* history: during a refund, the refund made just before it (if any)
    saturated,      \* history: some saturating_accrue on a bucket has saturated
    costs,          \* history: per (location, price), sum of the amounts charged
                    \* by successful buys
    ops,            \* number of buy_weight / refund_weight calls so far
    deposits,       \* the calls DepositFee::deposit_fee has received, in order,
                    \* each with the result it gave
    sinkCalls       \* number of ToFeeReceiver::take_revenue calls so far

vars == << weight, paid_assets, feeMultiplier, prices, revenue, dropped, call, ret,
           old, paid, buys, wbought, refunded, refunds, prevRefund,
           saturated, costs, ops, deposits, sinkCalls >>

\* The state of the fee receiver's side.
sinkVars == << deposits, sinkCalls >>

\* WeightToFee::weight_to_fee. IdentityFee is the multiplier 1;
\* ConstantMultiplier<u128, M> is saturated_from(weight).saturating_mul(M).
weight_to_fee(w) == Min(w * feeMultiplier, U128Max)

\* AcceptedCurrencyPrices::price
price(currency) == prices[currency]

\* A get_asset_and_price that falls back on any offered asset it can price.
get_asset_and_price_any(payment) ==
    LET priced == UNION { UNION { UNION { IF id.kind = "Concrete"
                                          THEN {<< id.key, p >>}
                                          ELSE {}
                                          : p \in price(currency) }
                                  : currency \in ConvertCurrency(Fungible(id, payment.fungible[id])) }
                          : id \in DOMAIN payment.fungible }
    IN  IF priced = {} THEN {}
        ELSE {CHOOSE k \in priced : \A j \in priced \ {k} : LedgerKeyLess(k, j)}

\* MultiCurrencyTrader::get_asset_and_price
get_asset_and_price(payment) ==
    LET first == fungible_assets_iter_next(payment)
    IN  IF first = {} THEN {}
        ELSE LET asset == CHOOSE a \in first : TRUE
             IN  UNION { UNION { IF asset.id.kind = "Concrete"
                                 THEN {<< asset.id.key, p >>}
                                 ELSE {}
                                 : p \in price(currency) }
                         : currency \in ConvertCurrency(asset) }

Err(e) == [tag |-> "Err", error |-> e]
Ok(assets) == [tag |-> "Ok", assets |-> assets]
Some(asset) == [tag |-> "Some", asset |-> asset]
None == [tag |-> "None"]

\* The state of the trader a call leaves behind, with what it returns.
Outcome(r, w, pa) == [ret |-> r, weight |-> w, paid_assets |-> pa]

\* BTreeMap::insert / get_mut on paid_assets.
BucketPut(pa, key, amount) ==
    [k \in DOMAIN pa \cup {key} |-> IF k = key THEN amount ELSE pa[k]]

\* BTreeMap::remove
BucketRemove(pa, key) == [k \in DOMAIN pa \ {key} |-> pa[k]]

\* buy_weight up to the conversion of the fee: the ledger key of the asset that
\* pays and the amount it owes, or the error that ends the call.
buy_amount(w, payment) ==
    LET ap == get_asset_and_price(payment)
    IN  IF ap = {} THEN Err("AssetNotFound")
        ELSE
        LET key == CHOOSE k \in ap : TRUE
            fee == weight_to_fee(w)
            converted_fee == checked_mul_int(key[2], fee)
        IN  IF converted_fee = {} THEN Err("Overflow")
            ELSE
            LET amount == try_into_u128(CHOOSE c \in converted_fee : TRUE)
            IN  IF amount = {} THEN Err("Overflow")
                ELSE [tag |-> "Amount", key |-> key, amount |-> CHOOSE a \in amount : TRUE]

\* A buy_weight that books the weight before it knows the payment suffices.
buy_weight_books_first(w, payment) ==
    LET cost == buy_amount(w, payment)
    IN  IF cost.tag = "Err" THEN Outcome(cost, weight, paid_assets)
        ELSE
        LET unused == checked_sub(payment, Fungible(Concrete(cost.key[1]), cost.amount))
        IN  IF ~unused.ok
            THEN Outcome(Err("TooExpensive"), saturating_add(weight, w), paid_assets)
            ELSE Outcome(Ok(unused.assets),
                         saturating_add(weight, w),
                         IF cost.key \in DOMAIN paid_assets
                         THEN BucketPut(paid_assets, cost.key,
                                        saturating_accrue(paid_assets[cost.key], cost.amount))
                         ELSE BucketPut(paid_assets, cost.key, cost.amount))

\* MultiCurrencyTrader::buy_weight
buy_weight(w, payment) ==
    LET cost == buy_amount(w, payment)
    IN  IF cost.tag = "Err" THEN Outcome(cost, weight, paid_assets)
        ELSE
        LET required == Fungible(Concrete(cost.key[1]), cost.amount)
            unused == checked_sub(payment, required)
        IN  IF ~unused.ok THEN Outcome(Err("TooExpensive"), weight, paid_assets)
            ELSE Outcome(Ok(unused.assets),
                         saturating_add(weight, w),
                         IF cost.key \in DOMAIN paid_assets
                         THEN BucketPut(paid_assets, cost.key,
                                        saturating_accrue(paid_assets[cost.key], cost.amount))
                         ELSE BucketPut(paid_assets, cost.key, cost.amount))

\* An iterator that is advanced past its first entry: nothing for a ledger of
\* one bucket.
first_bucket_skips_one(pa) ==
    LET rest == {k \in DOMAIN pa : \E j \in DOMAIN pa : LedgerKeyLess(j, k)}
    IN  IF rest = {} THEN {}
        ELSE {CHOOSE k \in rest : \A j \in rest \ {k} : LedgerKeyLess(k, j)}

\* An iterator that starts from the other end: the entry with the greatest key.
first_bucket_greatest(pa) ==
    IF DOMAIN pa = {} THEN {}
    ELSE {CHOOSE k \in DOMAIN pa : \A j \in DOMAIN pa \ {k} : LedgerKeyLess(j, k)}

\* BTreeMap::iter_mut().next(): the entry with the least key.
first_bucket(pa) ==
    IF DOMAIN pa = {} THEN {}
    ELSE {CHOOSE k \in DOMAIN pa : \A j \in DOMAIN pa \ {k} : LedgerKeyLess(k, j)}

\* A refund_weight that pays out the converted fee without capping it at
\* what the bucket holds.
refund_weight_uncapped(w) ==
    LET clamped == Min(w, weight)
        left == weight - clamped
        fee == weight_to_fee(clamped)
        first == first_bucket(paid_assets)
    IN  IF first = {} THEN Outcome(None, left, paid_assets)
        ELSE
        LET key == CHOOSE k \in first : TRUE
            converted_fee == saturating_mul_int(key[2], fee)
            refund == Min(converted_fee, paid_assets[key])
            amount == paid_assets[key] - refund
        IN  Outcome(Some(Fungible(Concrete(key[1]), converted_fee)),
                    left,
                    IF amount = 0 THEN BucketRemove(paid_assets, key)
                    ELSE BucketPut(paid_assets, key, amount))

\* A refund_weight that leaves a bucket in the ledger when it reaches 0.
refund_weight_keeps_zero(w) ==
    LET clamped == Min(w, weight)
        left == weight - clamped
        fee == weight_to_fee(clamped)
        first == first_bucket(paid_assets)
    IN  IF first = {} THEN Outcome(None, left, paid_assets)
        ELSE
        LET key == CHOOSE k \in first : TRUE
            converted_fee == saturating_mul_int(key[2], fee)
            refund == Min(converted_fee, paid_assets[key])
            amount == paid_assets[key] - refund
        IN  Outcome(Some(Fungible(Concrete(key[1]), refund)),
                    left,
                    BucketPut(paid_assets, key, amount))

\* A refund_weight that empties the whole ledger once its bucket reaches 0.
refund_weight_clears_all(w) ==
    LET clamped == Min(w, weight)
        left == weight - clamped
        fee == weight_to_fee(clamped)
        first == first_bucket(paid_assets)
    IN  IF first = {} THEN Outcome(None, left, paid_assets)
        ELSE
        LET key == CHOOSE k \in first : TRUE
            converted_fee == saturating_mul_int(key[2], fee)
            refund == Min(converted_fee, paid_assets[key])
            amount == paid_assets[key] - refund
        IN  Outcome(Some(Fungible(Concrete(key[1]), refund)),
                    left,
                    IF amount = 0 THEN << >>
                    ELSE BucketPut(paid_assets, key, amount))

\* A refund_weight that gives no weight back when the ledger is empty.
refund_weight_none_keeps_weight(w) ==
    LET clamped == Min(w, weight)
        left == weight - clamped
        fee == weight_to_fee(clamped)
        first == first_bucket(paid_assets)
    IN  IF first = {} THEN Outcome(None, weight, paid_assets)
        ELSE
        LET key == CHOOSE k \in first : TRUE
            converted_fee == saturating_mul_int(key[2], fee)
            refund == Min(converted_fee, paid_assets[key])
            amount == paid_assets[key] - refund
        IN  Outcome(Some(Fungible(Concrete(key[1]), refund)),
                    left,
                    IF amount = 0 THEN BucketRemove(paid_assets, key)
                    ELSE BucketPut(paid_assets, key, amount))

\* A refund_weight that converts the fee of the weight asked for, not of the
\* weight clamped to what was bought.
refund_weight_fee_of_asked(w) ==
    LET clamped == Min(w, weight)
        left == weight - clamped
        fee == weight_to_fee(w)
        first == first_bucket(paid_assets)
    IN  IF first = {} THEN Outcome(None, left, paid_assets)
        ELSE
        LET key == CHOOSE k \in first : TRUE
            converted_fee == saturating_mul_int(key[2], fee)
            refund == Min(converted_fee, paid_assets[key])
            amount == paid_assets[key] - refund
        IN  Outcome(Some(Fungible(Concrete(key[1]), refund)),
                    left,
                    IF amount = 0 THEN BucketRemove(paid_assets, key)
                    ELSE BucketPut(paid_assets, key, amount))

\* MultiCurrencyTrader::refund_weight
refund_weight(w) ==
    LET clamped == Min(w, weight)
        left == weight - clamped
        fee == weight_to_fee(clamped)
        first == first_bucket(paid_assets)
    IN  IF first = {} THEN Outcome(None, left, paid_assets)
        ELSE
        LET key == CHOOSE k \in first : TRUE
            converted_fee == saturating_mul_int(key[2], fee)
            refund == Min(converted_fee, paid_assets[key])
            amount == paid_assets[key] - refund
        IN  Outcome(Some(Fungible(Concrete(key[1]), refund)),
                    left,
                    IF amount = 0 THEN BucketRemove(paid_assets, key)
                    ELSE BucketPut(paid_assets, key, amount))

\* A drop loop that stops after the first bucket.
RevenueOf_first_only(pa) ==
    IF DOMAIN pa = {} THEN << >>
    ELSE LET key == CHOOSE k \in first_bucket(pa) : TRUE
         IN  << Fungible(Concrete(key[1]), pa[key]) >>

\* The buckets of a ledger in key order, each as the MultiAsset
\* (asset_loc, amount).into() that Drop hands to the sink.
RECURSIVE RevenueOf(_)
RevenueOf(pa) ==
    IF DOMAIN pa = {} THEN << >>
    ELSE LET key == CHOOSE k \in first_bucket(pa) : TRUE
         IN  << Fungible(Concrete(key[1]), pa[key]) >> \o RevenueOf(BucketRemove(pa, key))

\* A sink that is handed every item twice.
take_revenue_twice(taken, assets) == taken \o assets \o assets

\* Revenue::take_revenue of a sink that records what it receives.
take_revenue(taken, assets) == taken \o assets

\* MultiAsset with Fungibility::NonFungible(instance).
NonFungible(id, instance) == [id |-> id, fun |-> "NonFungible", instance |-> instance]

\* type Balance of the fee receiver's instantiation: u128.
BalanceMax == U128Max

\* A conversion into a Balance as narrow as a Weight.
saturated_into_Balance_narrow(amount) == Min(amount, U64Max)

\* amount.saturated_into::<Balance>()
saturated_into_Balance(amount) == Min(amount, BalanceMax)

\* TransactionMultiPaymentDataProvider::get_fee_receiver of MockFeeReceiver.
get_fee_receiver == 42

\* What DepositFee::deposit_fee may answer.
DispatchResults == {"Ok", "Err"}

\* DepositFee::deposit_fee answering result: the call as the depositor sees it.
deposit_fee(log, who, asset, amount, result) ==
    Append(log, [who |-> who, asset |-> asset, amount |-> amount, result |-> result])

Unit == [tag |-> "Unit"]
Panic == [tag |-> "Panic"]

\* ToFeeReceiver::take_revenue: the outcomes the call can have, each the value
\* it ends with and the deposit_fee calls made so far. A deposit may answer
\* Ok or Err, and either way take_revenue returns. An asset that is not
\* concrete and fungible meets debug_assert!(false): a panic in a build with
\* debug assertions, a log line and a normal return in one without.
ToFeeReceiver_take_revenue(log, asset) ==
    IF asset.id.kind = "Concrete" /\ asset.fun = "Fungible"
    THEN LET converted == ConvertLocationToId(asset.id.key)
         IN  IF converted = {} THEN {[ret |-> Unit, deposits |-> log]}
             ELSE LET id == CHOOSE i \in converted : TRUE
                      receiver == get_fee_receiver
                  IN  {[ret |-> Unit,
                        deposits |-> deposit_fee(log, receiver, id,
                                                 saturated_into_Balance(asset.amount),
                                                 result)]
                        : result \in DispatchResults}
    ELSE {[ret |-> Panic, deposits |-> log], [ret |-> Unit, deposits |-> log]}

\* ---------------------------------------------------------------- inputs
\* Weights passed to buy_weight.
Weights == {0, 1, 2}
\* Weights passed to refund_weight.
RefundWeights == {0, 1, 2, U64Max}

\* Locations of the assets MockConvert knows.
Locations == UNION {ConvertIdToLocation(id) : id \in KnownAssetIds}

PayIds ==
    {Concrete(Encode(id)) : id \in KnownAssetIds \cup {UNKNOWN_ASSET_ID}}
    \cup {Abstract(Encode(CORE_ASSET_ID))}

\* Ids offered together with another fungible id.
PairIds == PayIds \ {Concrete(Encode(OVERFLOW_ASSET_ID))}

\* AssetInstance::Undefined of the unknown token.
NonFungibleItem == << Concrete(Encode(UNKNOWN_ASSET_ID)), "Undefined" >>

\* Payments offered during a session.
Payments ==
    {EmptyAssets}
    \cup {Assets([i \in {Concrete(Encode(id))} |-> U128Max], {})
            : id \in {CORE_ASSET_ID, TEST_ASSET_ID}}
    \cup {Assets([i \in {Concrete(Encode(CORE_ASSET_ID))} |-> 1], {})}

\* Payments offered during a session followed to its drop: also the asset
\* with the highest price.
ScopedPayments ==
    Payments \cup {Assets([i \in {Concrete(Encode(OVERFLOW_ASSET_ID))} |-> U128Max], {})}

\* Payments offered to a single buy_weight: every shape of holding.
PayAmounts == {1, 2, U128Max}

AllPayments ==
    {Assets(<<>>, nf) : nf \in {{}, {NonFungibleItem}}}
    \cup {Assets([i \in {id} |-> a], {}) : id \in PayIds, a \in PayAmounts}
    \cup {Assets([i \in {id} |-> U128Max], {NonFungibleItem}) : id \in PayIds}
    \cup {Assets([i \in {id1, id2} |-> U128Max], {})
            : id1 \in PairIds, id2 \in PairIds}

\* What the oracle may answer later in the session: the test asset at four
\* times the native price, the core asset no longer priced.
LaterOracle ==
    [MockOracle EXCEPT ![TEST_ASSET_ID] = {saturating_from_integer(4)},
                       ![CORE_ASSET_ID] = {}]

OracleTables == {MockOracle, LaterOracle}

\* Amounts of the assets handed to the fee receiver.
RevenueAmounts == {0, 1, U128Max}

\* Assets handed to ToFeeReceiver::take_revenue: fungible ones of every id,
\* and a non-fungible one.
RevenueAssets ==
    {Fungible(id, a) : id \in PayIds, a \in RevenueAmounts}
    \cup {NonFungible(Concrete(Encode(CORE_ASSET_ID)), "Undefined")}

\* --------------------------------------------------------------- actions
\* WeightTrader::new, instantiated with IdentityFee or with
\* ConstantMultiplier<u128, ConstU128<{ Balance::MAX }>>.
Init ==
    /\ weight = 0
    /\ paid_assets = << >>
    /\ feeMultiplier \in {1, U128Max}
    /\ prices = MockOracle
    /\ revenue = << >>
    /\ dropped = FALSE
    /\ call = [op |-> "new"]
    /\ ret = None
    /\ old = [weight |-> 0, paid_assets |-> << >>]
    /\ paid = [l \in Locations |-> 0]
    /\ buys = [l \in Locations |-> 0]
    /\ wbought = [l \in Locations |-> 0]
    /\ refunded = [l \in Locations |-> 0]
    /\ refunds = 0
    /\ prevRefund = None
    /\ saturated = FALSE
    /\ costs = << >>
    /\ ops = 0
    /\ deposits = << >>
    /\ sinkCalls = 0

\* Amount of asset id held in assets (0 when absent).
Holding(assets, id) == IF id \in DOMAIN assets.fungible THEN assets.fungible[id] ELSE 0

BuyWeight(w, payment) ==
    /\ ~dropped
    /\ ops < MaxOps
    /\ LET out == buy_weight(w, payment)
           key == CHOOSE k \in get_asset_and_price(payment) : TRUE
           deducted == Holding(payment, Concrete(key[1]))
                       - Holding(out.ret.assets, Concrete(key[1]))
       IN  /\ weight' = out.weight
           /\ paid_assets' = out.paid_assets
           /\ ret' = out.ret
           /\ IF out.ret.tag = "Ok"
              THEN /\ paid' = [paid EXCEPT ![key[1]] = @ + deducted]
                   /\ buys' = [buys EXCEPT ![key[1]] = @ + 1]
                   /\ wbought' = [wbought EXCEPT ![key[1]] = @ + w]
                   /\ saturated' = (saturated \/
                                     (key \in DOMAIN paid_assets
                                      /\ out.paid_assets[key] # paid_assets[key] + deducted))
                   /\ costs' = BucketPut(costs, key,
                                         IF key \in DOMAIN costs
                                         THEN costs[key] + deducted
                                         ELSE deducted)
              ELSE UNCHANGED << paid, buys, wbought, saturated, costs >>
    /\ call' = [op |-> "buy_weight", weight |-> w, payment |-> payment, oracle |-> prices]
    /\ old' = [weight |-> weight, paid_assets |-> paid_assets]
    /\ ops' = ops + 1
    /\ prevRefund' = None
    /\ UNCHANGED << feeMultiplier, prices, revenue, dropped, refunded, refunds >>
    /\ UNCHANGED sinkVars

\* A refund that also hands the sink the asset it returns.
RefundWeight_forwards(w) ==
    /\ ~dropped
    /\ ops < MaxOps
    /\ LET out == refund_weight(w)
       IN  /\ weight' = out.weight
           /\ paid_assets' = out.paid_assets
           /\ ret' = out.ret
           /\ refunded' = IF out.ret.tag = "Some"
                          THEN [refunded EXCEPT ![out.ret.asset.id.key] = @ + out.ret.asset.amount]
                          ELSE refunded
           /\ revenue' = IF out.ret.tag = "Some"
                         THEN take_revenue(revenue, << out.ret.asset >>)
                         ELSE revenue
    /\ call' = [op |-> "refund_weight", weight |-> w]
    /\ old' = [weight |-> weight, paid_assets |-> paid_assets]
    /\ refunds' = refunds + 1
    /\ prevRefund' = IF call.op = "refund_weight"
                     THEN [tag |-> "Refund", weight |-> call.weight, ret |-> ret]
                     ELSE None
    /\ ops' = ops + 1
    /\ UNCHANGED << feeMultiplier, prices, dropped, paid, buys, wbought,
                    saturated, costs >>
    /\ UNCHANGED sinkVars

RefundWeight(w) ==
    /\ ~dropped
    /\ ops < MaxOps
    /\ LET out == refund_weight(w)
       IN  /\ weight' = out.weight
           /\ paid_assets' = out.paid_assets
           /\ ret' = out.ret
           /\ refunded' = IF out.ret.tag = "Some"
                          THEN [refunded EXCEPT ![out.ret.asset.id.key] = @ + out.ret.asset.amount]
                          ELSE refunded
    /\ call' = [op |-> "refund_weight", weight |-> w]
    /\ old' = [weight |-> weight, paid_assets |-> paid_assets]
    /\ refunds' = refunds + 1
    /\ prevRefund' = IF call.op = "refund_weight"
                     THEN [tag |-> "Refund", weight |-> call.weight, ret |-> ret]
                     ELSE None
    /\ ops' = ops + 1
    /\ UNCHANGED << feeMultiplier, prices, revenue, dropped, paid, buys, wbought,
                    saturated, costs >>
    /\ UNCHANGED sinkVars

\* A drop that can run again on a trader already dropped.
Drop_runs_again ==
    /\ revenue' = take_revenue(revenue, RevenueOf(paid_assets))
    /\ dropped' = TRUE
    /\ call' = [op |-> "drop"]
    /\ ret' = None
    /\ old' = [weight |-> weight, paid_assets |-> paid_assets]
    /\ prevRefund' = None
    /\ UNCHANGED << weight, paid_assets, feeMultiplier, prices, paid, buys, wbought,
                    refunded, refunds, saturated, costs, ops >>
    /\ UNCHANGED sinkVars

\* Drop for MultiCurrencyTrader: every bucket is handed to the sink; the
\* body does not modify paid_assets. A value is dropped once.
Drop ==
    /\ ~dropped
    /\ revenue' = take_revenue(revenue, RevenueOf(paid_assets))
    /\ dropped' = TRUE
    /\ call' = [op |-> "drop"]
    /\ ret' = None
    /\ old' = [weight |-> weight, paid_assets |-> paid_assets]
    /\ prevRefund' = None
    /\ UNCHANGED << weight, paid_assets, feeMultiplier, prices, paid, buys, wbought,
                    refunded, refunds, saturated, costs, ops >>
    /\ UNCHANGED sinkVars

\* The price oracle starts answering from another table.
OracleUpdate(table) ==
    /\ ~dropped
    /\ prices # table
    /\ prices' = table
    /\ UNCHANGED << weight, paid_assets, feeMultiplier, revenue, dropped, call, ret,
                    old, paid, buys, wbought, refunded, refunds, prevRefund,
                    saturated, costs, ops >>
    /\ UNCHANGED sinkVars

\* ToFeeReceiver::take_revenue(asset), called on its own as in
\* revenue_goes_to_fee_receiver. Nothing runs after a panic.
TakeRevenue(asset) ==
    /\ sinkCalls < MaxSinkCalls
    /\ ret # Panic
    /\ \E out \in ToFeeReceiver_take_revenue(deposits, asset) :
            /\ deposits' = out.deposits
            /\ ret' = out.ret
    /\ call' = [op |-> "take_revenue", asset |-> asset]
    /\ old' = [weight |-> weight, paid_assets |-> paid_assets, deposits |-> deposits]
    /\ sinkCalls' = sinkCalls + 1
    /\ UNCHANGED << weight, paid_assets, feeMultiplier, prices, revenue, dropped,
                    paid, buys, wbought, refunded, refunds, prevRefund,
                    saturated, costs, ops >>

\* A session: buys, refunds and price changes in any order, then the drop.
Next ==
    \/ \E w \in Weights, payment \in Payments : BuyWeight(w, payment)
    \/ \E w \in RefundWeights : RefundWeight(w)
    \/ Drop
    \/ \E table \in OracleTables : OracleUpdate(table)

Spec == Init /\ [][Next]_vars

\* buy_weight and refund_weight among the first calls of a session.
EarlyBuyWeight(w, payment) == ops < MaxBuyOps /\ BuyWeight(w, payment)

EarlyRefundWeight(w) == ops < MaxBuyOps /\ RefundWeight(w)

\* A short session whose buys are offered every shape of payment.
NextBuy ==
    \/ \E w \in Weights, payment \in AllPayments : EarlyBuyWeight(w, payment)
    \/ \E w \in RefundWeights : EarlyRefundWeight(w)
    \/ Drop
    \/ \E table \in OracleTables : OracleUpdate(table)

SpecBuy == Init /\ [][NextBuy]_vars

\* buy_weight and refund_weight in a session that is followed to its drop.
ScopedBuyWeight(w, payment) == ops < MaxScopedOps /\ BuyWeight(w, payment)

ScopedRefundWeight(w) == ops < MaxScopedOps /\ RefundWeight(w)

NextScoped ==
    \/ \E w \in Weights, payment \in ScopedPayments : ScopedBuyWeight(w, payment)
    \/ \E w \in RefundWeights : ScopedRefundWeight(w)
    \/ Drop
    \/ \E table \in OracleTables : OracleUpdate(table)

\* The fee receiver is handed assets, one call after the other.
NextSink == \E asset \in RevenueAssets : TakeRevenue(asset)

SpecSink == Init /\ [][NextSink]_vars

\* A session whose trader goes out of scope: the owner's scope ends, by return
\* or by unwinding, and the drop runs.
SpecScoped == Init /\ [][NextScoped]_vars /\ WF_vars(Drop)

\* ---------------------------------------------------------------- claims
\* Total amount of the asset at location l that the sink has received.
RECURSIVE SumAt(_, _)
SumAt(seq, l) ==
    IF seq = << >> THEN 0
    ELSE (IF Head(seq).id = Concrete(l) THEN Head(seq).amount ELSE 0) + SumAt(Tail(seq), l)

RevenueSum(l) == SumAt(revenue, l)

\* C1: whenever buy_weight fails, weight and every ledger bucket are what they
\* were before the call, and no bucket has been created.
C1_FailedBuyLeavesState ==
    (call.op = "buy_weight" /\ ret.tag = "Err")
        => /\ ret.error \in {"AssetNotFound", "Overflow", "TooExpensive"}
           /\ weight = old.weight
           /\ paid_assets = old.paid_assets

C1_Witness ==
    /\ call.op = "buy_weight"
    /\ ret.tag = "Err"
    /\ ret.error = "TooExpensive"
    /\ call.weight > 0
    /\ DOMAIN old.paid_assets # {}

\* C2: after successful buys of distinct assets and no refund, the drop hands
\* the sink exactly one item per asset bought, carrying the amount paid.
C2_FlushForwardsEachBucketOnce ==
    (dropped /\ refunds = 0 /\ \A l \in Locations : buys[l] <= 1)
        => /\ Len(revenue) = Cardinality({l \in Locations : buys[l] = 1})
           /\ \A l \in Locations :
                buys[l] = 1 =>
                    \E i \in 1..Len(revenue) : revenue[i] = Fungible(Concrete(l), paid[l])

C2_Witness ==
    /\ dropped
    /\ refunds = 0
    /\ Cardinality({l \in Locations : buys[l] = 1 /\ paid[l] > 0}) = 2
    /\ \A l \in Locations : buys[l] <= 1
    /\ Len(revenue) = 2

C4_ValueConserved ==
    (dropped /\ ~saturated)
        => \A l \in Locations : paid[l] = refunded[l] + RevenueSum(l)

C4_Witness ==
    /\ dropped
    /\ ~saturated
    /\ \E l \in Locations : refunded[l] > 0 /\ RevenueSum(l) > 0
    /\ \E l \in Locations : refunded[l] = 0 /\ RevenueSum(l) > 0

\* Locations some successful buy has paid with.
BoughtLocs == {l \in Locations : buys[l] > 0}

\* The session so far is one successful buy of weight w followed by refund(w).
BuyThenRefund ==
    /\ ops = 2
    /\ call.op = "refund_weight"
    /\ Cardinality(BoughtLocs) = 1
    /\ \A l \in BoughtLocs : buys[l] = 1 /\ wbought[l] = call.weight

\* C5: on a fresh session, a successful buy of weight w and cost c followed by
\* refund(w) returns (that asset, c), empties the ledger and leaves weight 0.
C5_RoundTrip ==
    BuyThenRefund
        => /\ \A l \in BoughtLocs : ret = Some(Fungible(Concrete(l), paid[l]))
           /\ DOMAIN paid_assets = {}
           /\ weight = 0

C5_Witness ==
    /\ BuyThenRefund
    /\ call.weight > 0
    /\ ret.tag = "Some"
    /\ ret.asset.amount > 0
    /\ DOMAIN old.paid_assets # {}

\* Buckets of the ledger that the last call created, removed or changed.
ChangedBuckets ==
    {k \in DOMAIN old.paid_assets \cup DOMAIN paid_assets :
        \/ k \notin DOMAIN old.paid_assets
        \/ k \notin DOMAIN paid_assets
        \/ paid_assets[k] # old.paid_assets[k]}

\* A refund touches at most one bucket, the one of the asset it returns.
RefundFrame ==
    call.op = "refund_weight"
        => /\ Cardinality(ChangedBuckets) <= 1
           /\ DOMAIN paid_assets \subseteq DOMAIN old.paid_assets
           /\ ChangedBuckets # {} => ret.tag = "Some"
           /\ \A k \in ChangedBuckets : k[1] = ret.asset.id.key

\* The session so far is: a successful buy of weight w with each of two
\* distinct assets, then refund(w) twice.
TwoBuysTwoRefunds ==
    /\ ops = 4
    /\ call.op = "refund_weight"
    /\ prevRefund.tag = "Refund"
    /\ prevRefund.weight = call.weight
    /\ Cardinality(BoughtLocs) = 2
    /\ \A l \in BoughtLocs : buys[l] = 1 /\ wbought[l] = call.weight

\* Each of the two refunds returned the full cost of one of the two assets,
\* and the ledger is empty.
BothRefundedInFull ==
    /\ prevRefund.ret.tag = "Some"
    /\ ret.tag = "Some"
    /\ {prevRefund.ret.asset.id.key, ret.asset.id.key} = BoughtLocs
    /\ prevRefund.ret.asset.amount = paid[prevRefund.ret.asset.id.key]
    /\ ret.asset.amount = paid[ret.asset.id.key]
    /\ DOMAIN paid_assets = {}

\* C6 as stated: a refund touches at most one bucket, and for every weight w,
\* after buying w with each of two assets, two refund(w) recover both in full.
C6_TwoRefundsRecoverBoth ==
    /\ RefundFrame
    /\ TwoBuysTwoRefunds => BothRefundedInFull

\* C6 as amended: the same, for weights w whose sum 2w does not exceed the
\* largest Weight (so that the total weight bought has not saturated).
C6_TwoRefundsRecoverBothUnsaturated ==
    /\ RefundFrame
    /\ (TwoBuysTwoRefunds /\ 2 * call.weight <= U64Max) => BothRefundedInFull

C6_Witness ==
    /\ TwoBuysTwoRefunds
    /\ 2 * call.weight <= U64Max
    /\ call.weight > 0
    /\ BothRefundedInFull
    /\ \A l \in BoughtLocs : paid[l] > 0

\* ------------------------------------------- claims about a single buy
\* The asset the last buy selected: the least fungible id of its payment.
SelectedIds ==
    {id \in DOMAIN call.payment.fungible :
        \A other \in DOMAIN call.payment.fungible \ {id} : AssetIdLess(id, other)}

\* The selected asset converts to an internal id the oracle priced at the time.
Resolves(id) ==
    /\ id.kind = "Concrete"
    /\ Decode(id.key) \in KnownAssetIds
    /\ call.oracle[Decode(id.key)] # {}

\* Resolved price times FeeFormula(weight), before narrowing.
CostOf(id) ==
    LET p == CHOOSE q \in call.oracle[Decode(id.key)] : TRUE
        fee == IF feeMultiplier = 1 THEN call.weight
               ELSE IF call.weight * feeMultiplier > U128Max THEN U128Max
               ELSE call.weight * feeMultiplier
    IN  (p * fee) \div DIV

\* C7: the selected asset resolves, its cost fits, but the payment holds less:
\* the buy fails with TooExpensive, the subtraction hands the payment back as
\* it was offered, and nothing is booked.
C7_TooExpensive ==
    call.op = "buy_weight"
        => \A id \in SelectedIds :
            (Resolves(id) /\ CostOf(id) <= U128Max /\ call.payment.fungible[id] < CostOf(id))
                => /\ ret = Err("TooExpensive")
                   /\ checked_sub(call.payment, Fungible(id, CostOf(id)))
                        = [ok |-> FALSE, assets |-> call.payment]
                   /\ weight = old.weight
                   /\ paid_assets = old.paid_assets

C7_Witness ==
    /\ call.op = "buy_weight"
    /\ \E id \in SelectedIds :
        /\ Resolves(id)
        /\ CostOf(id) <= U128Max
        /\ call.payment.fungible[id] < CostOf(id)
        /\ call.payment.fungible[id] > 1
    /\ ret = Err("TooExpensive")

\* C8: a payment that is empty, holds only non-fungible items, or whose
\* selected asset does not convert or has no price, fails with AssetNotFound.
C8_AssetNotFound ==
    call.op = "buy_weight"
        => ((\A id \in SelectedIds : ~Resolves(id)) => ret = Err("AssetNotFound"))

C8_Witness ==
    /\ call.op = "buy_weight"
    /\ ret = Err("AssetNotFound")
    /\ \E id \in SelectedIds :
        /\ id.kind = "Concrete"
        /\ Decode(id.key) \in KnownAssetIds
        /\ call.oracle[Decode(id.key)] = {}
    /\ \E id \in DOMAIN call.payment.fungible : Resolves(id)

\* C9: when price times fee does not fit the integer width the buy fails with
\* Overflow, whatever amount is offered.
C9_Overflow ==
    call.op = "buy_weight"
        => \A id \in SelectedIds :
            (Resolves(id) /\ CostOf(id) > U128Max) => ret = Err("Overflow")

C9_Witness ==
    /\ call.op = "buy_weight"
    /\ ret = Err("Overflow")
    /\ \E id \in SelectedIds :
        Resolves(id) /\ CostOf(id) > U128Max /\ call.payment.fungible[id] = U128Max

\* C10: a successful buy returns the payment less exactly the cost of the
\* selected asset, every other item as offered; offered exactly the cost, the
\* buy succeeds and the selected asset is gone from the remainder.
C10_Remainder ==
    call.op = "buy_weight"
        => \A id \in SelectedIds :
            /\ ret.tag = "Ok"
                => /\ Resolves(id)
                   /\ call.payment.fungible[id] >= CostOf(id)
                   /\ Holding(ret.assets, id) = call.payment.fungible[id] - CostOf(id)
                   /\ DOMAIN ret.assets.fungible
                        = {i \in DOMAIN call.payment.fungible : Holding(ret.assets, i) > 0}
                   /\ \A i \in DOMAIN call.payment.fungible \ {id} :
                        Holding(ret.assets, i) = call.payment.fungible[i]
                   /\ ret.assets.non_fungible = call.payment.non_fungible
            /\ (Resolves(id) /\ call.payment.fungible[id] = CostOf(id))
                => /\ ret.tag = "Ok"
                   /\ id \notin DOMAIN ret.assets.fungible
                   /\ (Cardinality(DOMAIN call.payment.fungible) = 1
                       /\ call.payment.non_fungible = {}) => is_empty(ret.assets)

C10_Witness ==
    /\ call.op = "buy_weight"
    /\ ret.tag = "Ok"
    /\ Cardinality(DOMAIN call.payment.fungible) = 2
    /\ Cardinality(DOMAIN ret.assets.fungible) = 1
    /\ \E id \in SelectedIds :
        CostOf(id) > 1 /\ call.payment.fungible[id] = CostOf(id)

\* The sink has received exactly one item per key of amt, carrying amt's amount.
ForwardedOnePerKey(amt) ==
    /\ Len(revenue) = Cardinality(DOMAIN amt)
    /\ \E f \in [DOMAIN amt -> 1..Len(revenue)] :
            /\ \A j, k \in DOMAIN amt : f[j] = f[k] => j = k
            /\ \A k \in DOMAIN amt : revenue[f[k]] = Fungible(Concrete(k[1]), amt[k])

\* The ledger holds exactly the buckets of amt, and a drop forwards each once.
LedgerIs(amt) ==
    /\ paid_assets = amt
    /\ dropped => ForwardedOnePerKey(amt)

\* C11 as stated: while no refund has been made, the ledger holds one bucket
\* per (asset, price) pair bought, whose amount is the sum of the costs of the
\* buys made at that pair, forwarded as one item by the drop.
C11_BucketIsSumOfCosts ==
    refunds = 0 => LedgerIs(costs)

\* C11 amended: while no refund has been made, the ledger holds one bucket per
\* (asset, price) pair bought, whose amount is the sum of the costs of the buys
\* made at that pair capped at the largest amount, forwarded as one item by
\* the drop.
C11_BucketIsSaturatedSumOfCosts ==
    refunds = 0 => LedgerIs([k \in DOMAIN costs |-> Min(costs[k], U128Max)])

C11_Witness ==
    /\ dropped
    /\ refunds = 0
    /\ \E j, k \in DOMAIN costs :
            /\ j # k
            /\ j[1] = k[1]
            /\ buys[k[1]] >= 3
            /\ costs[j] > 0
            /\ costs[k] > 0
\* C12: refund_weight always returns, either None or Some of one fungible asset
\* with an amount in range, and it returns None exactly when the ledger had no
\* bucket when it was called.
C12_RefundNeverFails ==
    call.op = "refund_weight"
        => /\ ret.tag \in {"None", "Some"}
           /\ ret.tag = "None" <=> DOMAIN old.paid_assets = {}
           /\ ret.tag = "Some"
                => /\ ret.asset.fun = "Fungible"
                   /\ ret.asset.id \in {Concrete(l) : l \in Locations}
                   /\ ret.asset.amount \in 0..U128Max
           /\ weight \in 0..U64Max
           /\ \A k \in DOMAIN paid_assets : paid_assets[k] \in 0..U128Max

C12_Witness ==
    /\ call.op = "refund_weight"
    /\ ret.tag = "None"
    /\ old.weight > 0
    /\ call.weight > 0
    /\ \E l \in Locations : refunded[l] > 0
\* C13: in every reachable state, whatever buys and refunds were made (buys of
\* weight 0 and buys whose cost truncates to 0 included), no bucket of the
\* ledger has amount 0.
C13_NoZeroBucket ==
    \A k \in DOMAIN paid_assets : paid_assets[k] # 0
\* Number of buy_weight calls that returned an error.
FailedBuys ==
    ops - refunds - (buys[Encode(CORE_ASSET_ID)] + buys[Encode(TEST_ASSET_ID)]
                     + buys[Encode(CHEAP_ASSET_ID)] + buys[Encode(OVERFLOW_ASSET_ID)])

\* C14: every session reaches its drop; the drop is the only step at which the
\* sink receives anything, it happens with the trader not yet dropped, and once
\* the trader is dropped it stays dropped and neither the weight, the ledger nor
\* what the sink has received changes again: the flush happens exactly once and
\* no buy or refund is applied after it.
C14_FlushOnceAtEnd ==
    /\ <>dropped
    /\ [][ /\ revenue' # revenue => (~dropped /\ dropped')
           /\ dropped' # dropped => call'.op = "drop"
           /\ dropped => /\ dropped'
                         /\ UNCHANGED << weight, paid_assets, revenue, ops, call >>
         ]_vars

C14_Witness ==
    /\ dropped
    /\ FailedBuys > 0
    /\ refunds > 0
    /\ Len(revenue) > 0
\* C15: when the trader is dropped after every amount charged by its buys has
\* been returned by refunds, the sink has received nothing, not even an item
\* of amount 0.
C15_NothingForwardedWhenAllRefunded ==
    (dropped /\ \A l \in Locations : refunded[l] = paid[l])
        => revenue = << >>
\* C16: when ToFeeReceiver::take_revenue is given a concrete fungible asset
\* whose location converts to an asset id, it makes exactly one deposit_fee
\* call, to the account get_fee_receiver returns, of that asset id and of
\* exactly the asset's amount, and it returns.
C16_OneDepositToFeeReceiver ==
    (/\ call.op = "take_revenue"
     /\ call.asset.fun = "Fungible"
     /\ call.asset.id.kind = "Concrete"
     /\ call.asset.id.key \in Locations)
        => /\ ret = Unit
           /\ Len(deposits) = Len(old.deposits) + 1
           /\ SubSeq(deposits, 1, Len(old.deposits)) = old.deposits
           /\ LET made == deposits[Len(deposits)]
              IN  /\ made.who = 42
                  /\ Encode(made.asset) = call.asset.id.key
                  /\ made.amount = call.asset.amount

C16_Witness ==
    /\ call.op = "take_revenue"
    /\ call.asset = Fungible(Concrete(Encode(TEST_ASSET_ID)), U128Max)
    /\ Len(old.deposits) = 1
    /\ Len(deposits) = 2
    /\ deposits[2].result = "Ok"
\* Key k comes before key j: its location is the lesser, or the locations are
\* the same and its price is the lower.
ComesBefore(k, j) ==
    \/ KeyLess(k[1], j[1])
    \/ k[1] = j[1] /\ k[2] < j[2]

\* Amount held under key k in ledger pa (0 when there is no such bucket).
Held(pa, k) == IF k \in DOMAIN pa THEN pa[k] ELSE 0

\* C17: a refund on a non-empty ledger returns the asset of the bucket that
\* comes first in (location, price) order, takes what it returns from that
\* bucket and leaves every other bucket as it was, whatever the order of the
\* buys; of two buckets of one asset it is the lower-priced one.
C17_RefundTakesLeastKey ==
    (call.op = "refund_weight" /\ DOMAIN old.paid_assets # {})
        => \E k \in DOMAIN old.paid_assets :
            /\ \A j \in DOMAIN old.paid_assets \ {k} : ComesBefore(k, j)
            /\ ret.tag = "Some"
            /\ ret.asset.id = Concrete(k[1])
            /\ ret.asset.amount = old.paid_assets[k] - Held(paid_assets, k)
            /\ DOMAIN paid_assets \subseteq DOMAIN old.paid_assets
            /\ \A j \in DOMAIN old.paid_assets \ {k} :
                    j \in DOMAIN paid_assets /\ paid_assets[j] = old.paid_assets[j]

C17_Witness ==
    /\ call.op = "refund_weight"
    /\ \E j, k \in DOMAIN old.paid_assets :
            /\ k[1] = j[1]
            /\ k[2] < j[2]
            /\ old.paid_assets[j] > 0
            /\ ret.tag = "Some"
            /\ ret.asset.amount > 0
            /\ Held(paid_assets, k) < old.paid_assets[k]
            /\ paid_assets[j] = old.paid_assets[j]
\* C18: a refund of weight w on a non-empty ledger returns the lesser of the
\* first bucket's price times the fee of min(w, weight bought), a product that
\* stops at the largest amount instead of overflowing, and of the amount the
\* bucket holds; the bucket loses exactly what is returned, and it is removed
\* if and only if nothing is left in it.
C18_RefundAmount ==
    (call.op = "refund_weight" /\ DOMAIN old.paid_assets # {})
        => \E k \in DOMAIN old.paid_assets :
            /\ \A j \in DOMAIN old.paid_assets \ {k} : ComesBefore(k, j)
            /\ LET fee == weight_to_fee(Min(call.weight, old.weight))
                   converted == Min((k[2] * fee) \div DIV, U128Max)
                   refund_amount == Min(converted, old.paid_assets[k])
               IN  /\ ret = Some(Fungible(Concrete(k[1]), refund_amount))
                   /\ ret.asset.amount <= old.paid_assets[k]
                   /\ Held(paid_assets, k) = old.paid_assets[k] - refund_amount
                   /\ k \notin DOMAIN paid_assets <=> old.paid_assets[k] = refund_amount

\* A refund whose product of price and fee is beyond the largest amount.
C18_Witness ==
    /\ call.op = "refund_weight"
    /\ \E k \in DOMAIN old.paid_assets :
            /\ \A j \in DOMAIN old.paid_assets \ {k} : ComesBefore(k, j)
            /\ (k[2] * weight_to_fee(Min(call.weight, old.weight))) \div DIV > U128Max
            /\ old.paid_assets[k] > 0
            /\ ret.tag = "Some"
            /\ ret.asset.amount = old.paid_assets[k]
            /\ k \notin DOMAIN paid_assets
\* C19: every refund of weight w leaves the weight bought at its former value
\* less w, or at 0 when w is more than that value, never below 0; this holds
\* when the ledger is empty and when the amount returned is capped by the
\* bucket as well.
C19_RefundDecrementsWeight ==
    call.op = "refund_weight"
        => /\ weight = (IF call.weight <= old.weight
                        THEN old.weight - call.weight
                        ELSE 0)
           /\ weight \in 0..U64Max

\* A refund of more than the weight bought, whose amount the bucket caps.
C19_Witness ==
    /\ call.op = "refund_weight"
    /\ old.weight > 0
    /\ call.weight > old.weight
    /\ weight = 0
    /\ ret.tag = "Some"
    /\ \E k \in DOMAIN old.paid_assets :
            /\ ret.asset.id = Concrete(k[1])
            /\ ret.asset.amount = old.paid_assets[k]
            /\ ret.asset.amount > 0
            /\ ret.asset.amount < (k[2] * weight_to_fee(old.weight)) \div DIV
\* The fungible concrete ids of the last buy's payment.
ConcreteIds == {id \in DOMAIN call.payment.fungible : id.kind = "Concrete"}

\* The first of them in the payment's iteration order.
FirstConcreteIds ==
    {id \in ConcreteIds : \A other \in ConcreteIds \ {id} : KeyLess(id.key, other.key)}

\* C20: a buy looks at one item only, the first fungible concrete item of the
\* payment; non-fungible and non-concrete items are passed over. Without such
\* an item, or when that item does not resolve, the buy fails with
\* AssetNotFound whatever else is offered; when it resolves, the buy succeeds
\* or fails on that item's cost and holding alone, and on success that item
\* alone is charged and booked.
C20_FirstConcreteFungiblePays ==
    call.op = "buy_weight"
        => /\ FirstConcreteIds = {} => ret = Err("AssetNotFound")
           /\ \A id \in FirstConcreteIds :
                /\ ~Resolves(id) => ret = Err("AssetNotFound")
                /\ Resolves(id)
                    => /\ ret # Err("AssetNotFound")
                       /\ ret.tag = "Ok"
                            <=> (CostOf(id) <= U128Max
                                 /\ call.payment.fungible[id] >= CostOf(id))
                       /\ ret.tag = "Ok"
                            => /\ \A other \in DOMAIN call.payment.fungible \ {id} :
                                    Holding(ret.assets, other) = call.payment.fungible[other]
                               /\ Holding(ret.assets, id)
                                    = call.payment.fungible[id] - CostOf(id)
                               /\ \E k \in DOMAIN paid_assets :
                                    /\ k[1] = id.key
                                    /\ call.oracle[Decode(id.key)] = {k[2]}
                                    /\ \A j \in DOMAIN paid_assets \ {k} :
                                            Held(old.paid_assets, j) = paid_assets[j]
                                            /\ j \in DOMAIN old.paid_assets

\* The first concrete item does not convert, a later one could have paid.
C20_Witness ==
    /\ call.op = "buy_weight"
    /\ call.weight > 0
    /\ ret = Err("AssetNotFound")
    /\ \E id \in FirstConcreteIds : Decode(id.key) \notin KnownAssetIds
    /\ \E id \in ConcreteIds \ FirstConcreteIds :
            Resolves(id) /\ call.payment.fungible[id] >= CostOf(id)
\* C21: as long as the trader has not been dropped the sink has received
\* nothing, and whatever the sink receives it receives at the step that is the
\* drop: no buy_weight, failed or not, and no refund_weight hands it anything.
C21_SinkOnlyAtDrop ==
    /\ [](~dropped => revenue = << >>)
    /\ [][ revenue' # revenue
             => /\ call'.op = "drop"
                /\ revenue' = revenue \o RevenueOf(paid_assets)
         ]_vars

\* A session not yet dropped, after a buy that failed, buys that succeeded and
\* a refund that returned something, with buckets still in the ledger.
C21_Witness ==
    /\ ~dropped
    /\ FailedBuys > 0
    /\ call.op = "refund_weight"
    /\ ret.tag = "Some"
    /\ ret.asset.amount > 0
    /\ \E k \in DOMAIN paid_assets : paid_assets[k] > 0
    /\ revenue = << >>
\* C22: whatever asset ToFeeReceiver::take_revenue is given (non-fungible,
\* not concrete, of a location that does not convert, or one whose deposit
\* answers an error) it returns normally, without reaching an error or a
\* failed assertion, so that a drop handing it the buckets goes on to the end.
C22_TakeRevenueAlwaysReturns ==
    call.op = "take_revenue" => ret = Unit
\* C23: a refund made when the weight bought is 0 returns None or the asset of
\* the first bucket with amount 0, and leaves every bucket of nonzero amount as
\* it was; a bucket left in the ledger once refunds have consumed all the
\* weight is therefore still there at the drop, and the drop hands it to the
\* sink.
C23_NoRefundWithoutWeight ==
    /\ (call.op = "refund_weight" /\ old.weight = 0)
            => /\ weight = 0
               /\ \/ ret = None /\ DOMAIN old.paid_assets = {}
                  \/ \E k \in DOMAIN old.paid_assets :
                        /\ \A j \in DOMAIN old.paid_assets \ {k} : ComesBefore(k, j)
                        /\ ret = Some(Fungible(Concrete(k[1]), 0))
               /\ \A k \in DOMAIN old.paid_assets :
                    old.paid_assets[k] # 0
                        => k \in DOMAIN paid_assets /\ paid_assets[k] = old.paid_assets[k]
    /\ (dropped /\ weight = 0)
            => \A k \in DOMAIN paid_assets :
                    \E i \in 1..Len(revenue) :
                        revenue[i] = Fungible(Concrete(k[1]), paid_assets[k])

\* Two assets bought, a refund that consumed all the weight and returned one
\* of them, then a refund that finds weight 0 and the other bucket untouched.
C23_Witness ==
    /\ call.op = "refund_weight"
    /\ call.weight > 0
    /\ old.weight = 0
    /\ ret.tag = "Some"
    /\ ret.asset.amount = 0
    /\ prevRefund.tag = "Refund"
    /\ prevRefund.ret.tag = "Some"
    /\ prevRefund.ret.asset.amount > 0
    /\ prevRefund.ret.asset.id # ret.asset.id
    /\ Cardinality(BoughtLocs) = 2
    /\ \E k \in DOMAIN paid_assets : k[1] = ret.asset.id.key /\ paid_assets[k] > 0
====
